---------------------------- MODULE Spec2Model ----------------------------
(***************************************************************************)
(* Model of TaskHandler<T> (src/unnamed/part_000): the list of pending     *)
(* model tasks of the git extension, its add / remove / execute methods    *)
(* and the strings its taskChanged signal emits.                           *)
(*                                                                         *)
(* JavaScript runs each synchronous call to completion, so add and remove  *)
(* are one step each.  execute is an async function: it runs up to its     *)
(* await in one step, the awaited promise settles in another, and the      *)
(* continuation (the finally block and the settling of execute's own       *)
(* promise) runs in a third; other calls may run in between.               *)
(***************************************************************************)
EXTENDS Integers, Sequences, FiniteSets, TLC

(* ------------------------------ bounds --------------------------------- *)

\* Number of identifiers UUID.uuid4() can hand out in one run.
MaxTasks == 3

\* Number of execute() calls made in one run.
MaxExec == 2

(* ------------------------------ domains -------------------------------- *)

\* The string remove() emits when the list is empty (line 94).
EmptySentinel == "empty"

\* Task names passed to add()/execute(): any string, the sentinel's text too.
Labels == {"git:clone", "empty"}

\* Identifiers: what _generateTaskID can return.
Ids == 1..MaxTasks

\* An identifier no add() ever returned.
NoSuchId == 0

Procs == 1..MaxExec

\* The slots connected to taskChanged, in connection order.
Listeners == {1, 2}

\* A manual caller (not one of the execute() calls).
Manual == 0

\* What the promise returned by callable() settles to.
OpOutcomes ==
    { [kind |-> "ok", val |-> "r1"], [kind |-> "ok", val |-> "r2"],
      [kind |-> "fail", val |-> "e1"] }

NoOutcome == [kind |-> "none", val |-> ""]

\* The error of reading .next of null (line 83 with an empty list).
TypeError == [kind |-> "fail", val |-> "TypeError"]

VARIABLES
    taskList,     \* _taskList: sequence of [id, task], oldest first
    issued,       \* identifiers _generateTaskID has returned so far
    held,         \* identifiers add() returned to manual callers
    emitted,      \* strings _taskChanged emitted during the last step
    received,     \* per listener: strings it was handed during the last step
    lastNotif,    \* the string _taskChanged emitted last, << >> before any
    lastCall,     \* the call the last step made, and what it met
    drain,        \* strings emitted by the current run of consecutive
                  \* removes that each removed a record
    pc,           \* per execute(): "idle", "awaiting", "settled", "done"
    taskID,       \* per execute(): its const taskID
    opOutcome,    \* per execute(): what callable()'s promise settled to
    outcome,      \* per execute(): what execute()'s promise settled to
    removeCalls,  \* per execute(): arguments of the remove() calls it made
    preLen,       \* per execute(): length of the list just before its add
    postLen,      \* per execute(): length of the list when it settled
    others        \* per execute(): net change of the length made by other
                  \* calls while it was in flight

vars == << taskList, issued, held, emitted, received, lastNotif, lastCall,
           drain, pc, taskID, opOutcome, outcome, removeCalls, preLen,
           postLen, others >>

(* --------------------------- the linked list --------------------------- *)

\* LinkedList.addLast (line 39).
addLastWrong(list, id, task) == << [id |-> id, task |-> task] >> \o list

addLast(list, id, task) == Append(list, [id |-> id, task |-> task])

\* LinkedList.removeNode of the node at position i.
removeNode(list, i) ==
    [k \in 1..(Len(list) - 1) |-> IF k < i THEN list[k] ELSE list[k + 1]]

\* The walk of lines 83-89, standing on node i: the position of the node
\* remove() excises, or 0 when the walk falls off the end.
RECURSIVE walkStopsEarly(_, _, _)
walkStopsEarly(list, i, id) ==
    IF i >= Len(list) - 1 THEN 0
    ELSE IF list[i + 1].id = id THEN i + 1
    ELSE walkStopsEarly(list, i + 1, id)

RECURSIVE walk(_, _, _)
walk(list, i, id) ==
    IF i >= Len(list) THEN 0
    ELSE IF list[i + 1].id = id THEN i + 1
    ELSE walk(list, i + 1, id)

(* ------------------------------ the methods ---------------------------- *)

\* _generateTaskID (lines 105-107): a version 4 UUID, one never returned
\* before.  Identifiers are opaque and only ever compared for equality, so
\* the one returned is taken to be the least unused one.
generateTaskIDReused == Ids

generateTaskID == {id \in Ids \ issued : \A other \in Ids \ issued : id <= other}

\* Lines 44-47: what add() emits, given the list after the append.
addEmitsAlways(list, task) == << task >>

addEmitsNever(list, task) == << >>

addEmits(list, task) == IF Len(list) = 1 THEN << task >> ELSE << >>

\* Lines 76-83: with an empty list firstNode is null, the first test fails
\* and `node.next` raises a TypeError.
removeThrows(list, id) == Len(list) = 0

\* Lines 76-90: the position of the record remove(id) excises, 0 for none.
removePosHeadOnly(list, id) ==
    IF Len(list) = 0 THEN 0
    ELSE IF list[1].id = id THEN 1
    ELSE 0

removePosOrLast(list, id) ==
    IF Len(list) = 0 THEN 0
    ELSE IF list[1].id = id THEN 1
    ELSE IF walk(list, 1, id) = 0 THEN Len(list)
    ELSE walk(list, 1, id)

removePos(list, id) ==
    IF Len(list) = 0 THEN 0
    ELSE IF list[1].id = id THEN 1
    ELSE walk(list, 1, id)

\* Lines 76-90: the list after remove(id).
removeListByTask(list, id) ==
    IF removePos(list, id) = 0 THEN list
    ELSE SelectSeq(list,
                   LAMBDA r : r.task # list[removePos(list, id)].task)

removeList(list, id) ==
    IF removePos(list, id) = 0 THEN list
    ELSE removeNode(list, removePos(list, id))

\* Lines 92-97: what remove() emits, given the list after the removal.
removeEmitsLast(list) ==
    IF Len(list) = 0 THEN << EmptySentinel >> ELSE << list[Len(list)].task >>

removeEmits(list) ==
    IF Len(list) = 0 THEN << EmptySentinel >> ELSE << list[1].task >>

\* Lines 62-67: what execute()'s promise settles to: the operation's own
\* outcome, unless the remove() in the finally block raised.
executeOutcomeSwallow(op, removeThrew) ==
    IF removeThrew THEN TypeError
    ELSE IF op.kind = "fail" THEN [kind |-> "ok", val |-> "r1"]
    ELSE op

executeOutcome(op, removeThrew) == IF removeThrew THEN TypeError ELSE op

(* ------------------------------ bookkeeping ---------------------------- *)

IdsOf(list) == {list[i].id : i \in DOMAIN list}

\* Where the record with identifier id stands in the list, 0 when absent.
IndexOf(list, id) ==
    IF id \in IdsOf(list)
      THEN CHOOSE i \in DOMAIN list :
             list[i].id = id /\ \A k \in 1..(i - 1) : list[k].id # id
      ELSE 0

HeadId(list) == IF Len(list) = 0 THEN NoSuchId ELSE list[1].id

\* The label of the record with identifier id, "" when there is none.
TaskOf(list, id) ==
    IF IndexOf(list, id) = 0 THEN "" ELSE list[IndexOf(list, id)].task

\* What a step did: the method called, by whom, its argument, and the list
\* it met: its length, its head, where the argument stood and the label of
\* the record there, and whether the call raised.
Call(op, by, label, id, list, threw) ==
    [op |-> op, by |-> by, label |-> label, id |-> id, preLen |-> Len(list),
     head |-> HeadId(list), pos |-> IndexOf(list, id),
     task |-> TaskOf(list, id), threw |-> threw]

\* Signal.emit (lines 46, 94, 96) hands each string to every connected slot,
\* synchronously and in connection order: what each listener is handed when
\* no slot calls back into the handler.
handed(strings) == [l \in Listeners |-> strings]

\* Signal.emit when the first slot, handed the strings `outer` of the call
\* under way, calls add or remove itself: that inner call runs to its end,
\* its own emit handing `inner` to every slot, before the outer emit goes
\* on to the slots connected after the first.
handedReentered(outer, inner) ==
    [l \in Listeners |-> IF l = 1 THEN outer \o inner ELSE inner \o outer]

\* The string emitted last, once `strings` have been emitted after `last`.
lastOf(last, strings) ==
    IF strings = << >> THEN last ELSE << strings[Len(strings)] >>

InFlight(p) == pc[p] \in {"awaiting", "settled"}

\* Every execute() in flight other than `by` sees the length change by d.
Bump(by, d) ==
    [p \in Procs |-> IF p # by /\ InFlight(p) THEN others[p] + d ELSE others[p]]

Init ==
    /\ taskList = << >>
    /\ issued = {}
    /\ held = {}
    /\ emitted = << >>
    /\ received = handed(<< >>)
    /\ lastNotif = << >>
    /\ lastCall = Call("none", Manual, "", NoSuchId, << >>, FALSE)
    /\ drain = << >>
    /\ pc = [p \in Procs |-> "idle"]
    /\ taskID = [p \in Procs |-> NoSuchId]
    /\ opOutcome = [p \in Procs |-> NoOutcome]
    /\ outcome = [p \in Procs |-> NoOutcome]
    /\ removeCalls = [p \in Procs |-> << >>]
    /\ preLen = [p \in Procs |-> 0]
    /\ postLen = [p \in Procs |-> 0]
    /\ others = [p \in Procs |-> 0]

(* ------------------------------ the steps ------------------------------ *)

\* add(task), lines 34-50, called by `by`; id is the identifier generated.
AddBy(by, task, id) ==
    /\ id \in generateTaskID
    /\ taskList' = addLast(taskList, id, task)
    /\ issued' = issued \cup {id}
    /\ emitted' = addEmits(taskList', task)
    /\ received' = handed(emitted')
    /\ lastNotif' = lastOf(lastNotif, emitted')
    /\ lastCall' = Call("add", by, task, id, taskList, FALSE)
    /\ drain' = << >>

\* remove(id), lines 75-98, called by `by`.
RemoveBy(by, id) ==
    /\ taskList' = IF removeThrows(taskList, id) THEN taskList
                   ELSE removeList(taskList, id)
    /\ emitted' = IF removeThrows(taskList, id) THEN << >>
                  ELSE removeEmits(taskList')
    /\ received' = handed(emitted')
    /\ lastNotif' = lastOf(lastNotif, emitted')
    /\ lastCall' = Call("remove", by, "", id, taskList,
                        removeThrows(taskList, id))
    /\ drain' = IF Len(taskList') < Len(taskList) THEN drain \o emitted'
                ELSE << >>
    /\ UNCHANGED issued

\* A caller adds a task by hand and keeps the identifier.
Add(task) ==
    \E id \in Ids :
        /\ AddBy(Manual, task, id)
        /\ held' = held \cup {id}
        /\ others' = Bump(Manual, 1)
        /\ UNCHANGED << pc, taskID, opOutcome, outcome, removeCalls,
                        preLen, postLen >>

\* A caller removes by hand: an identifier it got from add (still pending or
\* already removed), or one that was never issued.
Remove(id) ==
    /\ RemoveBy(Manual, id)
    /\ others' = Bump(Manual, Len(taskList') - Len(taskList))
    /\ UNCHANGED << held, pc, taskID, opOutcome, outcome, removeCalls,
                    preLen, postLen >>

\* execute(name, callable), lines 60-63: add, call callable, await.  The
\* calls are numbered in the order they are made.
ExecuteStart(p, name) ==
    /\ pc[p] = "idle"
    /\ \A q \in Procs : q < p => pc[q] # "idle"
    /\ \E id \in Ids :
        /\ AddBy(p, name, id)
        /\ taskID' = [taskID EXCEPT ![p] = id]
    /\ pc' = [pc EXCEPT ![p] = "awaiting"]
    /\ opOutcome' = [opOutcome EXCEPT ![p] = NoOutcome]
    /\ outcome' = [outcome EXCEPT ![p] = NoOutcome]
    /\ removeCalls' = [removeCalls EXCEPT ![p] = << >>]
    /\ preLen' = [preLen EXCEPT ![p] = Len(taskList)]
    /\ postLen' = [postLen EXCEPT ![p] = 0]
    /\ others' = [Bump(p, 1) EXCEPT ![p] = 0]
    /\ UNCHANGED held

\* The promise callable() returned settles (line 63).
OperationSettle(p, o) ==
    /\ pc[p] = "awaiting"
    /\ pc' = [pc EXCEPT ![p] = "settled"]
    /\ opOutcome' = [opOutcome EXCEPT ![p] = o]
    /\ emitted' = << >>
    /\ received' = handed(<< >>)
    /\ lastCall' = Call("settle", p, "", NoSuchId, taskList, FALSE)
    /\ UNCHANGED << taskList, issued, held, lastNotif, drain, taskID,
                    outcome, removeCalls, preLen, postLen, others >>

\* execute() resumes after the await, lines 64-67: the finally block calls
\* remove(taskID), then execute's promise settles.
ExecuteResumeNoFinally(p) ==
    /\ pc[p] = "settled"
    /\ IF opOutcome[p].kind = "ok"
         THEN /\ RemoveBy(p, taskID[p])
              /\ removeCalls' =
                    [removeCalls EXCEPT ![p] = Append(@, taskID[p])]
         ELSE /\ emitted' = << >>
              /\ received' = handed(<< >>)
              /\ lastCall' =
                    Call("settle", p, "", NoSuchId, taskList, FALSE)
              /\ UNCHANGED << taskList, issued, lastNotif, drain,
                              removeCalls >>
    /\ outcome' = [outcome EXCEPT ![p] = opOutcome[p]]
    /\ pc' = [pc EXCEPT ![p] = "done"]
    /\ postLen' = [postLen EXCEPT ![p] = Len(taskList')]
    /\ others' = Bump(p, Len(taskList') - Len(taskList))
    /\ UNCHANGED << held, taskID, opOutcome, preLen >>

ExecuteResume(p) ==
    /\ pc[p] = "settled"
    /\ RemoveBy(p, taskID[p])
    /\ removeCalls' = [removeCalls EXCEPT ![p] = Append(@, taskID[p])]
    /\ outcome' = [outcome EXCEPT ![p] =
                      executeOutcome(opOutcome[p],
                                     removeThrows(taskList, taskID[p]))]
    /\ pc' = [pc EXCEPT ![p] = "done"]
    /\ postLen' = [postLen EXCEPT ![p] = Len(taskList')]
    /\ others' = Bump(p, Len(taskList') - Len(taskList))
    /\ UNCHANGED << held, taskID, opOutcome, preLen >>

(* ------------------- slots that call back into the handler ------------ *)

\* What the steps below share: the list, the strings of the outer and of
\* the inner call, and the outer call.
Reentered(list, outer, inner, call) ==
    /\ taskList' = list
    /\ emitted' = outer \o inner
    /\ received' = handedReentered(outer, inner)
    /\ lastNotif' = lastOf(lastNotif, emitted')
    /\ lastCall' = call
    /\ drain' = << >>
    /\ others' = Bump(Manual, Len(list) - Len(taskList))
    /\ UNCHANGED << pc, taskID, opOutcome, outcome, removeCalls, preLen,
                    postLen >>

\* add(task) on an empty list emits (line 46); the first slot calls
\* remove(rid) from its handler, before add has returned its identifier.
\* An error raised in a slot is caught by the signal.
AddReentered(task, rid) ==
    \E id \in generateTaskID :
        LET list1 == addLast(taskList, id, task)
            outer == addEmits(list1, task)
            list2 == IF removeThrows(list1, rid) THEN list1
                     ELSE removeList(list1, rid)
            inner == IF removeThrows(list1, rid) THEN << >>
                     ELSE removeEmits(list2)
        IN  /\ outer # << >>
            /\ Reentered(list2, outer, inner,
                         Call("add", Manual, task, id, taskList, FALSE))
            /\ issued' = issued \cup {id}
            /\ held' = held \cup {id}

\* remove(id) emits (lines 94, 96); the first slot calls add(task) from its
\* handler and keeps the identifier.
RemoveReenteredByAdd(id, task) ==
    \E nid \in generateTaskID :
        LET list1 == removeList(taskList, id)
            outer == removeEmits(list1)
            list2 == addLast(list1, nid, task)
            inner == addEmits(list2, task)
        IN  /\ ~removeThrows(taskList, id)
            /\ Reentered(list2, outer, inner,
                         Call("remove", Manual, "", id, taskList, FALSE))
            /\ issued' = issued \cup {nid}
            /\ held' = held \cup {nid}

\* remove(id) emits (lines 94, 96); the first slot calls remove(rid) from
\* its handler.
RemoveReenteredByRemove(id, rid) ==
    LET list1 == removeList(taskList, id)
        outer == removeEmits(list1)
        list2 == IF removeThrows(list1, rid) THEN list1
                 ELSE removeList(list1, rid)
        inner == IF removeThrows(list1, rid) THEN << >>
                 ELSE removeEmits(list2)
    IN  /\ ~removeThrows(taskList, id)
        /\ Reentered(list2, outer, inner,
                     Call("remove", Manual, "", id, taskList, FALSE))
        /\ UNCHANGED << issued, held >>

\* The handler driven by direct calls, with a first slot that may call back.
NextListeners ==
    \/ \E task \in Labels : Add(task)
    \/ \E id \in held \cup {NoSuchId} : Remove(id)
    \/ \E task \in Labels, rid \in held \cup {NoSuchId} :
            AddReentered(task, rid)
    \/ \E id \in held \cup {NoSuchId}, task \in Labels :
            RemoveReenteredByAdd(id, task)
    \/ \E id, rid \in held \cup {NoSuchId} : RemoveReenteredByRemove(id, rid)

SpecListeners == Init /\ [][NextListeners]_vars

Next ==
    \/ \E task \in Labels : Add(task)
    \/ \E id \in held \cup {NoSuchId} : Remove(id)
    \/ \E p \in Procs, name \in Labels : ExecuteStart(p, name)
    \/ \E p \in Procs, o \in OpOutcomes : OperationSettle(p, o)
    \/ \E p \in Procs : ExecuteResume(p)

Spec == Init /\ [][Next]_vars

\* The handler driven through execute() only.
NextExecute ==
    \/ \E p \in Procs, name \in Labels : ExecuteStart(p, name)
    \/ \E p \in Procs, o \in OpOutcomes : OperationSettle(p, o)
    \/ \E p \in Procs : ExecuteResume(p)

SpecExecute == Init /\ [][NextExecute]_vars

\* The same, where every wrapped operation settles and the continuation
\* of a settled await is run (the microtask queue is always drained).
SpecExecuteFair ==
    /\ SpecExecute
    /\ \A p \in Procs :
          /\ WF_vars(\E o \in OpOutcomes : OperationSettle(p, o))
          /\ WF_vars(ExecuteResume(p))

(* ------------------------------ helpers -------------------------------- *)

Count(seq, x) == Cardinality({i \in DOMAIN seq : seq[i] = x})

TypeOK ==
    /\ IdsOf(taskList) \subseteq issued
    /\ held \subseteq issued
    /\ Len(taskList) <= MaxTasks
    /\ Len(emitted) <= 2

(* ------------------------------ the claims ----------------------------- *)

\* C1: in every reachable state the identifiers of the records held in the
\* task list are pairwise distinct.
IdsPairwiseDistinct ==
    \A i, j \in DOMAIN taskList :
        i # j => taskList[i].id # taskList[j].id

\* C1 witness: several records are held after an earlier one was removed.
IdsPairwiseDistinctWitness ==
    /\ Len(taskList) >= 2
    /\ Cardinality(issued) > Len(taskList)

\* C2 as stated: when execute settles, the list has the length it had just
\* before that execute called add.
ExecuteRestoresPreCallLength ==
    \A p \in Procs : pc[p] = "done" => postLen[p] = preLen[p]

\* C2 amended: when execute settles, the list has the length it had just
\* before that execute called add, plus the records other calls added and
\* minus the records other calls removed while it was in flight.
ExecuteNetZero ==
    \A p \in Procs : pc[p] = "done" => postLen[p] = preLen[p] + others[p]

\* C2 witness: an execute settled whose record was not the head and while
\* another call had lengthened the list.
ExecuteNetZeroWitness ==
    \E p \in Procs :
        /\ pc[p] = "done"
        /\ preLen[p] >= 1
        /\ others[p] >= 1
        /\ postLen[p] = preLen[p] + others[p]

\* C3: the outcome execute's caller sees is the outcome of the wrapped
\* operation, and it is delivered only after the remove of that execute's
\* record has run.
ExecuteRelaysOutcome ==
    \A p \in Procs :
        /\ pc[p] = "done" => outcome[p] = opOutcome[p]
        /\ pc[p] # "done" => outcome[p] = NoOutcome
        /\ outcome[p] # NoOutcome =>
              /\ removeCalls[p] # << >>
              /\ taskID[p] \notin IdsOf(taskList)

\* C3 witness: an execute relayed a failure while another was in flight.
ExecuteRelaysOutcomeWitness ==
    \E p, q \in Procs :
        /\ pc[p] = "done"
        /\ outcome[p] = [kind |-> "fail", val |-> "e1"]
        /\ pc[q] = "settled"
        /\ opOutcome[q] = [kind |-> "ok", val |-> "r2"]

\* C4: execute calls remove with the identifier its add returned exactly
\* once, on success and on failure, and never before the operation settled.
ExecuteRemovesOnce ==
    \A p \in Procs :
        /\ pc[p] \in {"idle", "awaiting", "settled"} => removeCalls[p] = << >>
        /\ pc[p] = "done" => removeCalls[p] = << taskID[p] >>
        /\ pc[p] # "idle" => taskID[p] \in issued \ held

\* C4 witness: one execute succeeded, one failed, each removed once.
ExecuteRemovesOnceWitness ==
    \E p, q \in Procs :
        /\ pc[p] = "done" /\ opOutcome[p].kind = "ok"
        /\ pc[q] = "done" /\ opOutcome[q].kind = "fail"
        /\ removeCalls[p] = << taskID[p] >>
        /\ removeCalls[q] = << taskID[q] >>

\* C5: add on an empty list emits exactly one notification, the added
\* label; add on a non-empty list emits none.
AddNotifiesOnlyWhenEmpty ==
    lastCall.op = "add" =>
        IF lastCall.preLen = 0
          THEN emitted = << lastCall.label >>
          ELSE emitted = << >>

\* C5 witness: an add met a non-empty list and stayed silent.
AddNotifiesOnlyWhenEmptyWitness ==
    /\ lastCall.op = "add"
    /\ lastCall.preLen >= 1
    /\ emitted = << >>

\* C6: a run of removes, each with an outstanding identifier, that empties
\* the list emits the empty sentinel exactly once, on its last call.
DrainEmitsSentinelOnce ==
    (drain # << >> /\ Len(taskList) = 0) =>
        /\ Count(drain, EmptySentinel) = 1
        /\ drain[Len(drain)] = EmptySentinel

\* C7: remove of a record that is present and is not the head removes that
\* record and emits exactly one notification, the label of the head, which
\* is the record that was the head before.
RemoveNonHeadAnnouncesHead ==
    (lastCall.op = "remove" /\ lastCall.pos >= 2) =>
        /\ Len(taskList) = lastCall.preLen - 1
        /\ lastCall.id \notin IdsOf(taskList)
        /\ taskList[1].id = lastCall.head
        /\ emitted = << taskList[1].task >>

\* C7 witness: a non-head record was removed, others remain behind the head
\* and the last one carries another label than the head.
RemoveNonHeadAnnouncesHeadWitness ==
    /\ lastCall.op = "remove"
    /\ lastCall.pos >= 2
    /\ Len(taskList) >= 2
    /\ taskList[Len(taskList)].task # taskList[1].task
    /\ emitted = << taskList[1].task >>

\* C8: while the head record is still present it stays the head and every
\* notification carries its label; when it is removed the next-oldest
\* record becomes the head.
FifoHead ==
    [][ /\ taskList # << >> =>
             IF taskList[1].id \in IdsOf(taskList')
               THEN taskList'[1] = taskList[1]
               ELSE taskList' = Tail(taskList)
        /\ taskList' # << >> =>
             \A k \in DOMAIN emitted' : emitted'[k] = taskList'[1].task
      ]_vars

\* C8 witness: the head was removed and the next-oldest record, with other
\* records behind it, was announced.
FifoHeadWitness ==
    /\ lastCall.op = "remove"
    /\ lastCall.pos = 1
    /\ Len(taskList) >= 2
    /\ taskList[1].task # taskList[2].task
    /\ emitted = << taskList[1].task >>

\* C9: every call to add or remove completes without raising an error.
CallsNeverRaise == lastCall.threw = FALSE

\* C10: remove with an identifier that is not in the list emits no
\* notification.
AbsentRemoveIsSilent ==
    (lastCall.op = "remove" /\ lastCall.pos = 0) => emitted = << >>

\* C11: every listener is handed every notification exactly once and in
\* the order in which the emitting calls were made, also when a listener
\* calls add or remove from inside its handler.
ListenersHearEmissionOrder ==
    \A l \in Listeners : received[l] = emitted

\* C12: every identifier add returns differs from every identifier an
\* earlier add returned, removed records' included; so a remove with an
\* identifier that is no longer in the list takes no record out of it.
FreshIdentifiers ==
    [][ /\ lastCall'.op = "add" =>
             /\ lastCall'.id \notin issued
             /\ lastCall'.id \in IdsOf(taskList')
        /\ (lastCall'.op = "remove" /\ lastCall'.id \notin IdsOf(taskList)) =>
             IdsOf(taskList) \subseteq IdsOf(taskList')
      ]_vars

\* C12 witness: a remove with the identifier of a removed record met a list
\* holding a record added after that one.
FreshIdentifiersWitness ==
    /\ lastCall.op = "remove"
    /\ lastCall.pos = 0
    /\ lastCall.id \in issued
    /\ \E i \in DOMAIN taskList : taskList[i].id > lastCall.id

\* The list without its i-th record.
Without(list, i) == SubSeq(list, 1, i - 1) \o SubSeq(list, i + 1, Len(list))

\* C13: remove with an identifier in the list removes exactly the record
\* with that identifier, wherever it stands, and keeps the others in order.
RemoveExcisesExactlyOne ==
    [][ (lastCall'.op = "remove" /\ lastCall'.pos >= 1) =>
            /\ taskList[lastCall'.pos].id = lastCall'.id
            /\ taskList' = Without(taskList, lastCall'.pos)
      ]_vars

\* C13 witness: the record in the middle of three was removed.
RemoveExcisesExactlyOneWitness ==
    /\ lastCall.op = "remove"
    /\ lastCall.pos = 2
    /\ lastCall.preLen = 3
    /\ Len(taskList) = 2

\* C14: remove with an identifier that is not in the list leaves the list
\* as it was.
AbsentRemoveKeepsList ==
    [][ (lastCall'.op = "remove" /\ lastCall'.pos = 0) =>
            taskList' = taskList ]_vars

\* C14 witness: a remove with a never issued identifier met two records.
AbsentRemoveKeepsListWitness ==
    /\ lastCall.op = "remove"
    /\ lastCall.id = NoSuchId
    /\ lastCall.preLen >= 2
    /\ Len(taskList) = lastCall.preLen

\* C15: the empty sentinel is emitted only by a remove that leaves the list
\* empty, never while the list holds a record.
SentinelOnlyWhenEmpty ==
    (\E k \in DOMAIN emitted : emitted[k] = EmptySentinel) =>
        /\ Len(taskList) = 0
        /\ lastCall.op = "remove"

\* C16: two records added with the same label have different identifiers,
\* and removing one of them leaves the other in the list, which is then
\* not empty.
SameLabelIndependent ==
    [][ \A i, j \in DOMAIN taskList :
            (i # j /\ taskList[i].task = taskList[j].task) =>
                /\ taskList[i].id # taskList[j].id
                /\ (lastCall'.op = "remove" /\ lastCall'.id = taskList[i].id) =>
                      /\ taskList[i].id \notin IdsOf(taskList')
                      /\ taskList[j].id \in IdsOf(taskList')
                      /\ taskList' # << >>
      ]_vars

\* C16 witness: a record was removed and one with the same label remains.
SameLabelIndependentWitness ==
    /\ lastCall.op = "remove"
    /\ lastCall.pos >= 1
    /\ \E j \in DOMAIN taskList : taskList[j].task = lastCall.task

\* C17: once a notification has been emitted, the one emitted last is the
\* label of the head when the list is not empty and the empty sentinel when
\* it is.
LastNotificationDescribesState ==
    lastNotif # << >> =>
        lastNotif = << IF Len(taskList) = 0 THEN EmptySentinel
                       ELSE taskList[1].task >>

\* C17 witness: a silent add left the head's label as the last one emitted.
LastNotificationDescribesStateWitness ==
    /\ lastCall.op = "add"
    /\ emitted = << >>
    /\ Len(taskList) >= 2
    /\ taskList[Len(taskList)].task # taskList[1].task
    /\ lastNotif = << taskList[1].task >>

\* C18: driven through execute only, the list holds as many records as
\* there are execute calls that have started and whose cleanup remove has
\* not run, namely their records; it is empty exactly when none is.
ExecuteCountsInFlight ==
    /\ Len(taskList) = Cardinality({p \in Procs : InFlight(p)})
    /\ IdsOf(taskList) = {taskID[p] : p \in {q \in Procs : InFlight(q)}}
    /\ taskList = << >> <=> \A p \in Procs : ~InFlight(p)

\* C18 witness: one execute has cleaned up while a later one, started
\* while the first was in flight, is still in flight.
ExecuteCountsInFlightWitness ==
    \E p, q \in Procs :
        /\ p < q
        /\ pc[p] = "done"
        /\ others[p] = 1
        /\ InFlight(q)
        /\ Len(taskList) = 1

\* C19: driven through execute only, with every wrapped operation settling,
\* whenever an execute is in flight the list eventually becomes empty with
\* the empty sentinel as the last notification emitted.
ExecuteEventuallyEmpty ==
    (\E p \in Procs : InFlight(p)) ~>
        (taskList = << >> /\ lastNotif = << EmptySentinel >>)

\* C19 witness: every execute has settled, one of them with a failure, and
\* the list is empty with the sentinel emitted last.
ExecuteEventuallyEmptyWitness ==
    /\ \A p \in Procs : pc[p] = "done"
    /\ \E p \in Procs : outcome[p].kind = "fail"
    /\ taskList = << >>
    /\ lastNotif = << EmptySentinel >>

=============================================================================
